---- MODULE Spec2Model ----
(***************************************************************************)
(* GSTR-2B vs Tally reconciliation (src/gst_reconciliation_app.py).        *)
(*                                                                         *)
(* One run of the "Run Reconciliation" handler, cut at the places where    *)
(* the script assigns its tables: read the two workbooks, validate the     *)
(* headers, normalize the cells, derive the match keys, Sheet 1, Sheet 4,  *)
(* Sheet 5, Sheet 2, Sheet 3, write the workbook.                          *)
(*                                                                         *)
(* Strings are sequences of one-character strings, so that str(),          *)
(* strip(), upper(), strftime(), the regex replace and the concatenation   *)
(* of the match keys are computed character by character.  Amounts are     *)
(* integers counted in units of 10^-FracDigits (exact fixed point).        *)
(***************************************************************************)
EXTENDS Integers, Sequences, FiniteSets, TLC

\* Decimal places carried by an amount (a bound of the model).
FracDigits == 4

\* Rows of the two workbooks together in a run of several rows.
MaxTotalRows == 3

RECURSIVE Pow10(_)
Pow10(n) == IF n = 0 THEN 1 ELSE 10 * Pow10(n - 1)

\* One unit of currency in model units.
Scale == Pow10(FracDigits)

\* The literal 0.01 of the two tolerance checks.
Tolerance == Scale \div 100

Abs(x) == IF x < 0 THEN -x ELSE x

----------------------------------------------------------------------------
\* Characters and strings

Digits == {"0", "1", "2", "3", "4", "5", "6", "7", "8", "9"}

DigitVal(c) ==
    CASE c = "0" -> 0 [] c = "1" -> 1 [] c = "2" -> 2 [] c = "3" -> 3
      [] c = "4" -> 4 [] c = "5" -> 5 [] c = "6" -> 6 [] c = "7" -> 7
      [] c = "8" -> 8 [] c = "9" -> 9

DigitChar(n) ==
    CASE n = 0 -> "0" [] n = 1 -> "1" [] n = 2 -> "2" [] n = 3 -> "3"
      [] n = 4 -> "4" [] n = 5 -> "5" [] n = 6 -> "6" [] n = 7 -> "7"
      [] n = 8 -> "8" [] n = 9 -> "9"

\* str(n) of a non-negative integer.
RECURSIVE NatStr(_)
NatStr(n) == IF n < 10 THEN <<DigitChar(n)>>
             ELSE NatStr(n \div 10) \o <<DigitChar(n % 10)>>

\* The value of a string of digits ("" counts 0).
RECURSIVE DigitsVal(_)
DigitsVal(s) == IF s = << >> THEN 0
                ELSE 10 * DigitsVal(SubSeq(s, 1, Len(s) - 1)) + DigitVal(s[Len(s)])

\* n written with at least w digits (strftime's %d, %m, %Y).
RECURSIVE ZeroPad(_, _)
ZeroPad(s, w) == IF Len(s) >= w THEN s ELSE ZeroPad(<<"0">> \o s, w)

\* str.upper() on the letters the inputs use.
UpperChar(c) ==
    CASE c = "a" -> "A" [] c = "b" -> "B" [] c = "c" -> "C" [] c = "n" -> "N"
      [] OTHER -> c

RECURSIVE LStrip(_)
LStrip(s) == IF s # << >> /\ Head(s) = " " THEN LStrip(Tail(s)) ELSE s

RECURSIVE RStrip(_)
RStrip(s) == IF s # << >> /\ s[Len(s)] = " " THEN RStrip(SubSeq(s, 1, Len(s) - 1)) ELSE s

\* str.strip()
Strip(s) == RStrip(LStrip(s))

\* clean_value: str(value).strip().upper()
clean_value(value) == [i \in 1..Len(Strip(value)) |-> UpperChar(Strip(value)[i])]

IsAmountChar(c) == c \in Digits \cup {"."}

\* .str.replace(r'[^\d.]+', '', regex=True)
StripNonNumeric(s) == SelectSeq(s, IsAmountChar)

IsDot(c) == c = "."

IsNotDash(c) == c # "-"

\* .str.replace('-', '')
RemoveDashes(s) == SelectSeq(s, IsNotDash)

\* Position of the first "." of s, Len(s) + 1 when there is none.
RECURSIVE DotPos(_, _)
DotPos(s, i) == IF i > Len(s) THEN i
                ELSE IF s[i] = "." THEN i ELSE DotPos(s, i + 1)

RECURSIVE RPadZero(_, _)
RPadZero(s, w) == IF Len(s) >= w THEN SubSeq(s, 1, w) ELSE RPadZero(s \o <<"0">>, w)

\* The parse of an unsigned decimal literal: digits with at most one ".", at
\* least one digit.  ok = FALSE is NaN; int says the literal has no ".".
ParseUnsigned(s) ==
    LET dots == Len(SelectSeq(s, IsDot))
        p    == DotPos(s, 1)
        ip   == SubSeq(s, 1, p - 1)
        fp   == SubSeq(s, p + 1, Len(s))
        good == /\ \A i \in 1..Len(s) : IsAmountChar(s[i])
                /\ dots <= 1
                /\ Len(s) - dots >= 1
    IN  IF good
        THEN [ok |-> TRUE, int |-> dots = 0,
              v |-> DigitsVal(ip) * Scale + DigitsVal(RPadZero(fp, FracDigits))]
        ELSE [ok |-> FALSE, int |-> FALSE, v |-> 0]

\* The parse pd.to_numeric makes of one cell: an optional sign, then an
\* unsigned literal.
ParseSigned(s) ==
    IF s # << >> /\ Head(s) = "-"
    THEN LET u == ParseUnsigned(Tail(s)) IN [u EXCEPT !.v = -u.v]
    ELSE ParseUnsigned(s)

\* pd.to_numeric(cell, errors='coerce') followed by .fillna(0)
to_numeric_fillna(s) == IF ParseSigned(s).ok THEN ParseSigned(s).v ELSE 0

RECURSIVE RStripZeros(_)
RStripZeros(s) == IF Len(s) > 1 /\ s[Len(s)] = "0"
                  THEN RStripZeros(SubSeq(s, 1, Len(s) - 1)) ELSE s

\* str() of a non-negative float64 amount: the integer part, ".", and the
\* decimals without trailing zeros (at least one).
FloatStr(v) ==
    NatStr(v \div Scale) \o <<".">> \o
    RStripZeros(ZeroPad(NatStr(v % Scale), FracDigits))

\* str() of an int64 amount.
IntStr(v) == NatStr(v \div Scale)

\* round(x, 2): to the nearest hundredth, ties to the even hundredth.
round2(x) ==
    LET q == x \div Tolerance
        r == x % Tolerance
    IN  IF 2 * r < Tolerance THEN q * Tolerance
        ELSE IF 2 * r > Tolerance THEN (q + 1) * Tolerance
        ELSE IF q % 2 = 0 THEN q * Tolerance ELSE (q + 1) * Tolerance

----------------------------------------------------------------------------
\* The state of one run

VARIABLES
    pc,                         \* the place the handler has reached
    gstr2b_df, tally_df,        \* the two dataframes
    error,                      \* the st.error shown before st.stop()
    gstr2b_processed_indices,   \* S.No of GSTR2B rows already placed
    tally_processed_indices,    \* S.No of Tally rows already placed
    merged_full, sheet1,        \* Tier 1: join on match_key_full
    merged_value, sheet4_df,    \* Tier 2: join on match_key_value
    merged_invoice_only,        \* Tier 3: join on Invoice Number
    sheet5_final,
    sheet2, sheet3,             \* GSTR2B Only, Tally Only
    produced,                   \* names of the tables assigned so far
    output                      \* sheet names written to the workbook

vars == <<pc, gstr2b_df, tally_df, error, gstr2b_processed_indices,
          tally_processed_indices, merged_full, sheet1, merged_value, sheet4_df,
          merged_invoice_only, sheet5_final, sheet2, sheet3, produced, output>>

tables == <<gstr2b_processed_indices, tally_processed_indices, merged_full, sheet1,
            merged_value, sheet4_df, merged_invoice_only, sheet5_final, sheet2,
            sheet3, produced, output>>

required_columns ==
    <<"S.No", "GSTIN of Supplier", "Trade/Legal Name", "Invoice Number",
      "Invoice Date", "Invoice Value", "Taxable Value", "IGST", "CGST", "SGST">>

NoError == [file |-> "", col |-> ""]

EmptyFrame == [columns |-> << >>, rows |-> << >>]

----------------------------------------------------------------------------
\* The workbooks a run may be given

\* Invoice number and GSTIN of a row.  "A" + "BC" and "AB" + "C" are the same
\* text once concatenated; "A"/"BC" and "A"/"C" share the invoice number only.
InvoiceGstins == {<<<<"A">>, <<"B", "C">>>>, <<<<"A", "B">>, <<"C">>>>, <<<<"A">>, <<"C">>>>}

Date1 == [ok |-> TRUE, d |-> 1, m |-> 2, y |-> 2024]
Date2 == [ok |-> TRUE, d |-> 2, m |-> 1, y |-> 2024]
NotADate == [ok |-> FALSE, d |-> 0, m |-> 0, y |-> 0]

\* A date cell: a calendar date, or text that is no date.
Dates == {Date1, Date2, NotADate}

\* Taxable values 5, 5.01 and 5.0201: differences of exactly 0.01, of 0.0101
\* and of 0.0201.
TaxableValues == {<<"5">>, <<"5", ".", "0", "1">>, <<"5", ".", "0", "2", "0", "1">>}

\* Amount cells as text: a number, a negative number, a decimal, a number
\* with a currency word, text, an empty cell (str(NaN)).
RawAmounts == {<<"7">>, <<"-", "7">>, <<"7", ".", "5">>, <<"R", "s", " ", "7">>,
               <<"x">>, <<"n", "a", "n">>}

RawRow(sno, inv, gstin, date, tax) ==
    [sno |-> sno, gstin |-> gstin, name |-> <<"N">>, inv |-> inv, date |-> date,
     invval |-> <<"9">>, taxval |-> tax, igst |-> <<"1">>, cgst |-> <<"0">>,
     sgst |-> <<"0">>]

\* Rows of the runs of one row a side: every combination of the cells.
PairRows == {RawRow(1, ig[1], ig[2], d, t) :
               ig \in InvoiceGstins, d \in Dates, t \in TaxableValues}

\* Rows of the runs of several rows: a record, the same record with each
\* other taxable value, with another GSTIN, with another date, with no date,
\* with invoice number and GSTIN split elsewhere, and with everything but
\* the invoice number changed.
MatchRows ==
    {RawRow(0, <<"A">>, <<"C">>, Date1, t) : t \in TaxableValues}
    \cup {RawRow(0, <<"A">>, <<"B", "C">>, Date1, <<"5">>),
          RawRow(0, <<"A">>, <<"C">>, Date2, <<"5">>),
          RawRow(0, <<"A">>, <<"C">>, NotADate, <<"5">>),
          RawRow(0, <<"A", "B">>, <<"C">>, Date1, <<"5">>),
          RawRow(0, <<"A">>, <<"B", "C">>, Date2, <<"5", ".", "0", "2", "0", "1">>)}

\* The rows r with S.No taken from snos.
Numbered(r, snos) == [k \in 1..Len(r) |-> [r[k] EXCEPT !.sno = snos[k]]]

Shapes == {sh \in (0..MaxTotalRows) \X (0..MaxTotalRows) : sh[1] + sh[2] <= MaxTotalRows}

\* The header row: every required column but `missing`, `padded` written with
\* spaces around it.
Headers(missing, padded) ==
    LET keep(c) == c # missing
        cols == SelectSeq(required_columns, keep)
    IN  [k \in 1..Len(cols) |->
            IF cols[k] = padded THEN <<" ", cols[k], " ">> ELSE <<cols[k]>>]

FullHeaders == Headers("none", "none")

Range(s) == {s[k] : k \in 1..Len(s)}

Frame(h, r) == [columns |-> h, rows |-> r]

\* Rows of the runs in which a workbook repeats an S.No: one invoice number.
DupRows == {RawRow(0, <<"A">>, g, d, t) :
              g \in {<<"B", "C">>, <<"C">>}, d \in {Date1, Date2},
              t \in {<<"5">>, <<"5", ".", "0", "2", "0", "1">>}}

\* Rows of the runs that exercise the cell normalization.
CellRows ==
    {[sno |-> 1, gstin |-> ig[2], name |-> <<"N">>, inv |-> ig[1], date |-> Date1,
      invval |-> iv, taxval |-> tv, igst |-> x, cgst |-> cg, sgst |-> sg] :
        ig \in {<<<<"A">>, <<"C">>>>, <<<<"a", " ">>, <<" ", "c">>>>},
        iv \in RawAmounts, tv \in RawAmounts, x \in RawAmounts,
        cg \in {<<"7">>, <<"-", "7">>}, sg \in {<<"7">>, <<"-", "7">>}}

PlainRow == RawRow(1, <<"A">>, <<"C">>, Date1, <<"7">>)

\* Header rows of the runs that exercise the header check.
HeaderChoices ==
    {Headers(m, p) : m \in {"none"} \cup Range(required_columns),
                     p \in {"none", "S.No", "SGST"}}

----------------------------------------------------------------------------
\* Reading and validating

Init ==
    /\ pc = "upload"
    /\ gstr2b_df = EmptyFrame
    /\ tally_df = EmptyFrame
    /\ error = NoError
    /\ gstr2b_processed_indices = {}
    /\ tally_processed_indices = {}
    /\ merged_full = << >>
    /\ sheet1 = << >>
    /\ merged_value = << >>
    /\ sheet4_df = << >>
    /\ merged_invoice_only = << >>
    /\ sheet5_final = << >>
    /\ sheet2 = << >>
    /\ sheet3 = << >>
    /\ produced = {}
    /\ output = {}

Loaded(g, t) == gstr2b_df' = g /\ tally_df' = t

\* pd.read_excel of the two uploaded workbooks: a run of several rows with
\* S.No 1, 2, ... in each workbook, a run of one row a side, a run in which a
\* workbook repeats an S.No, a run of odd cells, or a run of odd headers.
ReadExcel ==
    /\ pc = "upload"
    /\ \/ \E sh \in Shapes :
            \E a \in [1..sh[1] -> MatchRows], b \in [1..sh[2] -> MatchRows] :
               Loaded(Frame(FullHeaders, Numbered(a, [k \in 1..Len(a) |-> k])),
                      Frame(FullHeaders, Numbered(b, [k \in 1..Len(b) |-> k])))
       \/ \E a \in PairRows, b \in PairRows :
               Loaded(Frame(FullHeaders, <<a>>), Frame(FullHeaders, <<b>>))
       \/ \E r1 \in DupRows, r2 \in DupRows, r3 \in DupRows :
               \/ Loaded(Frame(FullHeaders, Numbered(<<r1, r2>>, <<1, 1>>)),
                         Frame(FullHeaders, Numbered(<<r3>>, <<1>>)))
               \/ Loaded(Frame(FullHeaders, Numbered(<<r3>>, <<1>>)),
                         Frame(FullHeaders, Numbered(<<r1, r2>>, <<1, 1>>)))
       \/ \E r \in CellRows :
               \/ Loaded(Frame(FullHeaders, <<r>>), Frame(FullHeaders, <<PlainRow>>))
               \/ Loaded(Frame(FullHeaders, <<PlainRow>>), Frame(FullHeaders, <<r>>))
       \/ \E hg \in HeaderChoices, ht \in HeaderChoices :
               Loaded(Frame(hg, <<PlainRow>>), Frame(ht, <<PlainRow>>))
    /\ pc' = "loaded"
    /\ UNCHANGED <<error, tables>>

\* df.columns.str.strip()
normalize_dataframe_columns(df) ==
    [df EXCEPT !.columns = [k \in 1..Len(df.columns) |-> Strip(df.columns[k])]]

HasColumn(df, col) == <<col>> \in Range(df.columns)

\* The loop checking the GSTR2B frame only.
RECURSIVE FirstMissing_GstrOnly(_, _, _, _)
FirstMissing_GstrOnly(req, g, t, k) ==
    IF k > Len(req) THEN NoError
    ELSE IF <<req[k]>> \notin {g.columns[j] : j \in 1..Len(g.columns)}
         THEN [file |-> "GSTR2B", col |-> req[k]]
    ELSE FirstMissing_GstrOnly(req, g, t, k + 1)

\* The loop over required_columns: the column and file of the first st.error,
\* NoError when every column is present in both frames.
RECURSIVE FirstMissing(_, _, _, _)
FirstMissing(req, g, t, k) ==
    IF k > Len(req) THEN NoError
    ELSE IF ~HasColumn(g, req[k]) THEN [file |-> "GSTR2B", col |-> req[k]]
    ELSE IF ~HasColumn(t, req[k]) THEN [file |-> "Tally", col |-> req[k]]
    ELSE FirstMissing(req, g, t, k + 1)

\* Header normalization and the required-column check; st.stop() ends the run.
Validate ==
    /\ pc = "loaded"
    /\ gstr2b_df' = normalize_dataframe_columns(gstr2b_df)
    /\ tally_df' = normalize_dataframe_columns(tally_df)
    /\ error' = FirstMissing(required_columns, gstr2b_df', tally_df', 1)
    /\ pc' = IF error' = NoError THEN "validated" ELSE "stopped"
    /\ UNCHANGED tables

----------------------------------------------------------------------------
\* Normalization and match keys

\* pd.to_datetime(..., errors='coerce', dayfirst=True).dt.strftime('%d-%m-%Y'):
\* the text dd-mm-yyyy, or NaN (nat) for a cell that is no date.
NormDate(c) ==
    IF c.ok
    THEN [nat |-> FALSE,
          s |-> ZeroPad(NatStr(c.d), 2) \o <<"-">> \o ZeroPad(NatStr(c.m), 2)
                \o <<"-">> \o ZeroPad(NatStr(c.y), 4)]
    ELSE [nat |-> TRUE, s |-> << >>]

\* The amount parsed without the regex replace.
CleanAmount_NoStrip(s) == to_numeric_fillna(s)

\* pd.to_numeric(cell.astype(str).str.replace(r'[^\d.]+', ''), errors='coerce')
\* followed by .fillna(0)
CleanAmount(s) ==
    IF ParseUnsigned(StripNonNumeric(s)).ok THEN ParseUnsigned(StripNonNumeric(s)).v ELSE 0

\* pd.to_numeric yields an int64 column when every cell parses as an integer,
\* float64 otherwise (also when a cell is NaN).
IsInt64Column(cells) ==
    \A k \in 1..Len(cells) :
        /\ ParseUnsigned(StripNonNumeric(cells[k])).ok
        /\ ParseUnsigned(StripNonNumeric(cells[k])).int

NormRow(r) ==
    [sno |-> r.sno,
     gstin |-> clean_value(r.gstin),
     name |-> r.name,
     inv |-> clean_value(r.inv),
     date |-> NormDate(r.date),
     invval |-> CleanAmount(r.invval),
     taxval |-> CleanAmount(r.taxval),
     igst |-> to_numeric_fillna(r.igst),
     cgst |-> to_numeric_fillna(r.cgst),
     sgst |-> to_numeric_fillna(r.sgst)]

NormFrame(df) ==
    [columns |-> df.columns,
     rows |-> [k \in 1..Len(df.rows) |-> NormRow(df.rows[k])],
     taxint |-> IsInt64Column([k \in 1..Len(df.rows) |-> df.rows[k].taxval])]

\* The loop "for df in [gstr2b_df, tally_df]".
Normalize ==
    /\ pc = "validated"
    /\ gstr2b_df' = NormFrame(gstr2b_df)
    /\ tally_df' = NormFrame(tally_df)
    /\ pc' = "normalized"
    /\ UNCHANGED <<error, tables>>

\* df['Invoice Date'].astype(str): NaN prints as nan.
DateStr(d) == IF d.nat THEN <<"n", "a", "n">> ELSE d.s

\* df['Taxable Value'].astype(str)
TaxStr(v, taxint) == IF taxint THEN IntStr(v) ELSE FloatStr(v)

match_key_value(r) == r.inv \o r.gstin \o RemoveDashes(DateStr(r.date))

match_key_full(r, taxint) ==
    r.inv \o r.gstin \o RemoveDashes(DateStr(r.date)) \o TaxStr(r.taxval, taxint)

KeyedRow(r, taxint) ==
    [sno |-> r.sno, gstin |-> r.gstin, name |-> r.name, inv |-> r.inv,
     date |-> r.date, invval |-> r.invval, taxval |-> r.taxval, igst |-> r.igst,
     cgst |-> r.cgst, sgst |-> r.sgst,
     match_key_full |-> match_key_full(r, taxint),
     match_key_value |-> match_key_value(r)]

create_match_keys(df) ==
    [df EXCEPT !.rows = [k \in 1..Len(df.rows) |-> KeyedRow(df.rows[k], df.taxint)]]

CreateMatchKeys ==
    /\ pc = "normalized"
    /\ gstr2b_df' = create_match_keys(gstr2b_df)
    /\ tally_df' = create_match_keys(tally_df)
    /\ pc' = "keyed"
    /\ UNCHANGED <<error, tables>>

----------------------------------------------------------------------------
\* The joins

JoinKey(r, on) ==
    CASE on = "match_key_full" -> r.match_key_full
      [] on = "match_key_value" -> r.match_key_value
      [] on = "Invoice Number" -> r.inv

\* pd.merge(left, right, on=on, how='inner'): every pair of a left row and a
\* right row with equal keys, in the order of the left rows.
RECURSIVE merge(_, _, _)
merge(left, right, on) ==
    IF left = << >> THEN << >>
    ELSE LET l == Head(left)
             hit(r) == JoinKey(r, on) = JoinKey(l, on)
             m == SelectSeq(right, hit)
         IN  [k \in 1..Len(m) |-> [g |-> l, t |-> m[k]]] \o merge(Tail(left), right, on)

\* The frame without the isin filter.
NotProcessed_NoFilter(df, processed) == df.rows

\* df[~df['S.No'].isin(processed)]
NotProcessed(df, processed) ==
    LET keep(r) == r.sno \notin processed IN SelectSeq(df.rows, keep)

\* The columns Sheet 1 and Sheet 4 share.
PairRow(p) ==
    [GSTR2B_SNo |-> p.g.sno, Tally_SNo |-> p.t.sno,
     GSTIN_of_Supplier |-> p.g.gstin, Trade_Legal_Name |-> p.g.name,
     Invoice_Number |-> p.g.inv, Invoice_Date |-> p.g.date,
     GSTR2B_Invoice_Value |-> p.g.invval, Tally_Invoice_Value |-> p.t.invval,
     Diff_Invoice_Value |-> round2(p.t.invval - p.g.invval),
     GSTR2B_Taxable_Value |-> p.g.taxval, Tally_Taxable_Value |-> p.t.taxval,
     Diff_Taxable_Value |-> round2(p.t.taxval - p.g.taxval),
     GSTR2B_IGST |-> p.g.igst, Tally_IGST |-> p.t.igst,
     Diff_IGST |-> round2(p.t.igst - p.g.igst),
     GSTR2B_CGST |-> p.g.cgst, Tally_CGST |-> p.t.cgst,
     Diff_CGST |-> round2(p.t.cgst - p.g.cgst),
     GSTR2B_SGST |-> p.g.sgst, Tally_SGST |-> p.t.sgst,
     Diff_SGST |-> round2(p.t.sgst - p.g.sgst)]

\* Sheet 1: Matched Invoices.
Sheet1 ==
    /\ pc = "keyed"
    /\ merged_full' = merge(gstr2b_df.rows, tally_df.rows, "match_key_full")
    /\ sheet1' = [k \in 1..Len(merged_full') |-> PairRow(merged_full'[k])]
    /\ gstr2b_processed_indices' =
         gstr2b_processed_indices \cup {merged_full'[k].g.sno : k \in 1..Len(merged_full')}
    /\ tally_processed_indices' =
         tally_processed_indices \cup {merged_full'[k].t.sno : k \in 1..Len(merged_full')}
    /\ produced' = produced \cup {"Matched Invoices"}
    /\ pc' = "sheet1"
    /\ UNCHANGED <<gstr2b_df, tally_df, error, merged_value, sheet4_df,
                   merged_invoice_only, sheet5_final, sheet2, sheet3, output>>

\* The tolerance check with >= in place of >.
ValueDiffers_Geq(a, b) == Abs(a - b) >= Tolerance

\* abs(a - b) > 0.01
ValueDiffers(a, b) == Abs(a - b) > Tolerance

\* The Sheet 4 check with a tolerance of one whole unit.
Sheet4Keep_WideTolerance(p) == Abs(p.g.taxval - p.t.taxval) > Scale

Sheet4Keep(p) == ValueDiffers(p.g.taxval, p.t.taxval)

Sheet4Row(p) == [PairRow(p) EXCEPT !.Tally_Taxable_Value = round2(p.t.taxval)]

\* Sheet 4: Value Mismatched.
Sheet4 ==
    /\ pc = "sheet1"
    /\ merged_value' = merge(NotProcessed(gstr2b_df, gstr2b_processed_indices),
                             NotProcessed(tally_df, tally_processed_indices),
                             "match_key_value")
    /\ LET kept == SelectSeq(merged_value', Sheet4Keep)
       IN  /\ sheet4_df' = [k \in 1..Len(kept) |-> Sheet4Row(kept[k])]
           /\ gstr2b_processed_indices' =
                gstr2b_processed_indices \cup {kept[k].g.sno : k \in 1..Len(kept)}
           /\ tally_processed_indices' =
                tally_processed_indices \cup {kept[k].t.sno : k \in 1..Len(kept)}
    /\ produced' = produced \cup {"Value Mismatched"}
    /\ pc' = "sheet4"
    /\ UNCHANGED <<gstr2b_df, tally_df, error, merged_full, sheet1,
                   merged_invoice_only, sheet5_final, sheet2, sheet3, output>>

\* row[a] != row[b] on two Invoice Date cells: NaN differs from everything,
\* itself included.
DateDiffers(a, b) == a.nat \/ b.nat \/ a.s # b.s

is_gstin_mismatch(p) == p.g.gstin # p.t.gstin

is_date_mismatch(p) == DateDiffers(p.g.date, p.t.date)

is_taxable_value_mismatch(p) == ValueDiffers(p.g.taxval, p.t.taxval)

Sheet5Keep(p) ==
    is_gstin_mismatch(p) \/ is_date_mismatch(p) \/ is_taxable_value_mismatch(p)

\* The labels appended with the date label first.
mismatch_reason_parts_DateFirst(p) ==
    (IF is_date_mismatch(p) THEN <<"Date mismatch">> ELSE << >>) \o
    (IF is_gstin_mismatch(p) THEN <<"GSTIN mismatch">> ELSE << >>) \o
    (IF is_taxable_value_mismatch(p) THEN <<"Taxable Value mismatch">> ELSE << >>)

mismatch_reason_parts(p) ==
    (IF is_gstin_mismatch(p) THEN <<"GSTIN mismatch">> ELSE << >>) \o
    (IF is_date_mismatch(p) THEN <<"Date mismatch">> ELSE << >>) \o
    (IF is_taxable_value_mismatch(p) THEN <<"Taxable Value mismatch">> ELSE << >>)

\* sep.join(parts), as the sequence of its pieces.
RECURSIVE Join(_, _)
Join(parts, sep) ==
    IF Len(parts) <= 1 THEN parts
    ELSE <<Head(parts), sep>> \o Join(Tail(parts), sep)

Sheet5Row(p) ==
    [GSTR2B_SNo |-> p.g.sno, Tally_SNo |-> p.t.sno, Invoice_Number |-> p.g.inv,
     GSTR2B_GSTIN |-> p.g.gstin, Tally_GSTIN |-> p.t.gstin,
     GSTR2B_Invoice_Date |-> p.g.date, Tally_Invoice_Date |-> p.t.date,
     GSTR2B_Taxable_Value |-> p.g.taxval, Tally_Taxable_Value |-> p.t.taxval,
     Mismatch_Reason |-> Join(mismatch_reason_parts(p), ", ")]

\* The records without drop_duplicates.
drop_duplicates_KeepAll(rows) == rows

\* .drop_duplicates(subset=['GSTR2B S.No', 'Tally S.No'], keep='first')
drop_duplicates(rows) ==
    LET first(k) == \A j \in 1..(k - 1) :
                       ~(/\ rows[j].GSTR2B_SNo = rows[k].GSTR2B_SNo
                         /\ rows[j].Tally_SNo = rows[k].Tally_SNo)
        RECURSIVE from(_)
        from(k) == IF k > Len(rows) THEN << >>
                   ELSE (IF first(k) THEN <<rows[k]>> ELSE << >>) \o from(k + 1)
    IN  from(1)

\* Sheet 5: Not Matching.
Sheet5 ==
    /\ pc = "sheet4"
    /\ merged_invoice_only' = merge(NotProcessed(gstr2b_df, gstr2b_processed_indices),
                                    NotProcessed(tally_df, tally_processed_indices),
                                    "Invoice Number")
    /\ LET kept == SelectSeq(merged_invoice_only', Sheet5Keep)
           sheet5_records == [k \in 1..Len(kept) |-> Sheet5Row(kept[k])]
       IN  /\ sheet5_final' = drop_duplicates(sheet5_records)
           /\ gstr2b_processed_indices' =
                gstr2b_processed_indices \cup {kept[k].g.sno : k \in 1..Len(kept)}
           /\ tally_processed_indices' =
                tally_processed_indices \cup {kept[k].t.sno : k \in 1..Len(kept)}
    /\ produced' = produced \cup {"Not Matching"}
    /\ pc' = "sheet5"
    /\ UNCHANGED <<gstr2b_df, tally_df, error, merged_full, sheet1, merged_value,
                   sheet4_df, sheet2, sheet3, output>>

\* A dataframe row without the two key columns, S.No moved to the front.
OnlyRow(r) ==
    [SNo |-> r.sno, gstin |-> r.gstin, name |-> r.name, inv |-> r.inv,
     date |-> r.date, invval |-> r.invval, taxval |-> r.taxval, igst |-> r.igst,
     cgst |-> r.cgst, sgst |-> r.sgst]

\* Every row of the frame, whether processed or not.
OnlyRows_All(df, processed) == [k \in 1..Len(df.rows) |-> OnlyRow(df.rows[k])]

OnlyRows(df, processed) ==
    LET left == NotProcessed(df, processed)
    IN  [k \in 1..Len(left) |-> OnlyRow(left[k])]

\* Sheet 2: GSTR2B Only.
Sheet2 ==
    /\ pc = "sheet5"
    /\ sheet2' = OnlyRows(gstr2b_df, gstr2b_processed_indices)
    /\ produced' = produced \cup {"GSTR2B Only"}
    /\ pc' = "sheet2"
    /\ UNCHANGED <<gstr2b_df, tally_df, error, gstr2b_processed_indices,
                   tally_processed_indices, merged_full, sheet1, merged_value,
                   sheet4_df, merged_invoice_only, sheet5_final, sheet3, output>>

\* Sheet 3: Tally Only.
Sheet3 ==
    /\ pc = "sheet2"
    /\ sheet3' = OnlyRows(tally_df, tally_processed_indices)
    /\ produced' = produced \cup {"Tally Only"}
    /\ pc' = "sheet3"
    /\ UNCHANGED <<gstr2b_df, tally_df, error, gstr2b_processed_indices,
                   tally_processed_indices, merged_full, sheet1, merged_value,
                   sheet4_df, merged_invoice_only, sheet5_final, sheet2, output>>

\* pd.ExcelWriter: a sheet for every table that is not empty.
WriteExcel ==
    /\ pc = "sheet3"
    /\ output' = {n \in produced :
                    \/ n = "Matched Invoices" /\ sheet1 # << >>
                    \/ n = "GSTR2B Only" /\ sheet2 # << >>
                    \/ n = "Tally Only" /\ sheet3 # << >>
                    \/ n = "Value Mismatched" /\ sheet4_df # << >>
                    \/ n = "Not Matching" /\ sheet5_final # << >>}
    /\ pc' = "done"
    /\ UNCHANGED <<gstr2b_df, tally_df, error, gstr2b_processed_indices,
                   tally_processed_indices, merged_full, sheet1, merged_value,
                   sheet4_df, merged_invoice_only, sheet5_final, sheet2, sheet3,
                   produced>>

Next ==
    \/ ReadExcel
    \/ Validate
    \/ Normalize
    \/ CreateMatchKeys
    \/ Sheet1
    \/ Sheet4
    \/ Sheet5
    \/ Sheet2
    \/ Sheet3
    \/ WriteExcel

Spec == Init /\ [][Next]_vars

----------------------------------------------------------------------------
\* The tables, read by S.No

SNoUnique(df) ==
    \A i, j \in 1..Len(df.rows) : i # j => df.rows[i].sno # df.rows[j].sno

Keyed == pc \in {"keyed", "sheet1", "sheet4", "sheet5", "sheet2", "sheet3", "done"}

AfterSheet1 == pc \in {"sheet1", "sheet4", "sheet5", "sheet2", "sheet3", "done"}

AfterSheet4 == pc \in {"sheet4", "sheet5", "sheet2", "sheet3", "done"}

AfterSheet5 == pc \in {"sheet5", "sheet2", "sheet3", "done"}

Normalized == pc \in {"normalized"} \/ Keyed

\* The categories in which a GSTR2B S.No occurs.
GstrCategories(s) ==
    {c \in {"Matched Invoices", "Value Mismatched", "Not Matching", "GSTR2B Only"} :
        \/ c = "Matched Invoices" /\ \E k \in 1..Len(sheet1) : sheet1[k].GSTR2B_SNo = s
        \/ c = "Value Mismatched" /\ \E k \in 1..Len(sheet4_df) : sheet4_df[k].GSTR2B_SNo = s
        \/ c = "Not Matching" /\ \E k \in 1..Len(sheet5_final) : sheet5_final[k].GSTR2B_SNo = s
        \/ c = "GSTR2B Only" /\ \E k \in 1..Len(sheet2) : sheet2[k].SNo = s}

\* The categories in which a Tally S.No occurs.
TallyCategories(s) ==
    {c \in {"Matched Invoices", "Value Mismatched", "Not Matching", "Tally Only"} :
        \/ c = "Matched Invoices" /\ \E k \in 1..Len(sheet1) : sheet1[k].Tally_SNo = s
        \/ c = "Value Mismatched" /\ \E k \in 1..Len(sheet4_df) : sheet4_df[k].Tally_SNo = s
        \/ c = "Not Matching" /\ \E k \in 1..Len(sheet5_final) : sheet5_final[k].Tally_SNo = s
        \/ c = "Tally Only" /\ \E k \in 1..Len(sheet3) : sheet3[k].SNo = s}

----------------------------------------------------------------------------
\* C1: after a completed run over workbooks whose S.No are unique, every
\* GSTR2B S.No is in exactly one of Matched Invoices, Value Mismatched, Not
\* Matching, GSTR2B Only, and every Tally S.No in exactly one of Matched
\* Invoices, Value Mismatched, Not Matching, Tally Only.
C1_Partition ==
    (pc = "done" /\ SNoUnique(gstr2b_df) /\ SNoUnique(tally_df)) =>
        /\ \A k \in 1..Len(gstr2b_df.rows) :
              Cardinality(GstrCategories(gstr2b_df.rows[k].sno)) = 1
        /\ \A k \in 1..Len(tally_df.rows) :
              Cardinality(TallyCategories(tally_df.rows[k].sno)) = 1

\* A completed run over unique S.No in which one GSTR2B record is paired at
\* Tier 3 while the other is left to GSTR2B Only.
C1_Witness ==
    /\ pc = "done" /\ SNoUnique(gstr2b_df) /\ SNoUnique(tally_df)
    /\ Len(gstr2b_df.rows) = 2
    /\ sheet5_final # << >>
    /\ sheet2 # << >>

\* C2: two records with the same invoice number, GSTIN and date whose taxable
\* values differ by exactly 0.01, neither with another candidate partner, end
\* in Matched Invoices and in no other table.
C2_BoundaryPairMatched ==
    (/\ pc = "done"
     /\ Len(gstr2b_df.rows) = 1 /\ Len(tally_df.rows) = 1
     /\ gstr2b_df.rows[1].inv = tally_df.rows[1].inv
     /\ gstr2b_df.rows[1].gstin = tally_df.rows[1].gstin
     /\ ~gstr2b_df.rows[1].date.nat
     /\ gstr2b_df.rows[1].date = tally_df.rows[1].date
     /\ Abs(gstr2b_df.rows[1].taxval - tally_df.rows[1].taxval) = Tolerance) =>
        /\ Len(sheet1) = 1
        /\ sheet4_df = << >> /\ sheet5_final = << >>
        /\ sheet2 = << >> /\ sheet3 = << >>

\* C3: no pair of Matched Invoices or of Value Mismatched holds a record
\* whose Invoice Date did not parse.
C3_NoSentinelPair ==
    /\ \A k \in 1..Len(merged_full) :
          ~merged_full[k].g.date.nat /\ ~merged_full[k].t.date.nat
    /\ \A k \in 1..Len(merged_value) :
          Sheet4Keep(merged_value[k]) =>
             ~merged_value[k].g.date.nat /\ ~merged_value[k].t.date.nat

\* A record of one workbook whose full key some record of the other has.
GstrTier1Matchable(r) ==
    \E k \in 1..Len(tally_df.rows) :
        tally_df.rows[k].match_key_full = r.match_key_full

TallyTier1Matchable(r) ==
    \E k \in 1..Len(gstr2b_df.rows) :
        gstr2b_df.rows[k].match_key_full = r.match_key_full

\* C4: with unique S.No, a record matchable at Tier 1 is in Matched Invoices
\* and in no later table.
C4_Precedence ==
    (AfterSheet1 /\ SNoUnique(gstr2b_df) /\ SNoUnique(tally_df)) =>
        /\ \A k \in 1..Len(gstr2b_df.rows) :
              GstrTier1Matchable(gstr2b_df.rows[k]) =>
                 GstrCategories(gstr2b_df.rows[k].sno) = {"Matched Invoices"}
        /\ \A k \in 1..Len(tally_df.rows) :
              TallyTier1Matchable(tally_df.rows[k]) =>
                 TallyCategories(tally_df.rows[k].sno) = {"Matched Invoices"}

\* A completed run in which a GSTR2B record has a Tier 1 partner and also a
\* Tally record with the same partial key and another taxable value.
C4_Witness ==
    /\ pc = "done" /\ SNoUnique(gstr2b_df) /\ SNoUnique(tally_df)
    /\ \E a \in 1..Len(gstr2b_df.rows), b \in 1..Len(tally_df.rows),
          c \in 1..Len(tally_df.rows) :
          /\ gstr2b_df.rows[a].match_key_full = tally_df.rows[b].match_key_full
          /\ gstr2b_df.rows[a].match_key_value = tally_df.rows[c].match_key_value
          /\ ValueDiffers(gstr2b_df.rows[a].taxval, tally_df.rows[c].taxval)
          /\ sheet3 # << >>

\* A required column that the frame lacks once its headers are trimmed.
MissingColumn(df) ==
    \E col \in Range(required_columns) :
        \A k \in 1..Len(df.columns) : Strip(df.columns[k]) # <<col>>

\* C5: when a required column is absent from either workbook the run stops
\* at validation: no normalization, no keys, no tier, no table, no workbook.
C5_FatalShortCircuit ==
    (pc # "upload" /\ (MissingColumn(gstr2b_df) \/ MissingColumn(tally_df))) =>
        /\ pc \in {"loaded", "stopped"}
        /\ produced = {} /\ output = {}
        /\ sheet1 = << >> /\ sheet2 = << >> /\ sheet3 = << >>
        /\ sheet4_df = << >> /\ sheet5_final = << >>
        /\ gstr2b_processed_indices = {} /\ tally_processed_indices = {}

\* A run stopped because the Tally workbook alone lacks a required column.
C5_Witness ==
    /\ pc = "stopped"
    /\ error.file = "Tally"
    /\ ~MissingColumn(gstr2b_df)
    /\ MissingColumn(tally_df)

\* C6: a Tier 2 candidate is kept exactly when its taxable values differ by
\* more than 0.01, and a Not Matching row carries the taxable-value label
\* exactly when its taxable values differ by more than 0.01.
C6_ToleranceBoundary ==
    /\ AfterSheet4 =>
          /\ Len(sheet4_df) =
                Cardinality({k \in 1..Len(merged_value) :
                    Abs(merged_value[k].g.taxval - merged_value[k].t.taxval) > Tolerance})
          /\ \A k \in 1..Len(merged_value) :
                (Abs(merged_value[k].g.taxval - merged_value[k].t.taxval) > Tolerance)
                   => \E j \in 1..Len(sheet4_df) :
                         /\ sheet4_df[j].GSTR2B_SNo = merged_value[k].g.sno
                         /\ sheet4_df[j].Tally_SNo = merged_value[k].t.sno
                         /\ sheet4_df[j].GSTR2B_Taxable_Value = merged_value[k].g.taxval
    /\ \A k \in 1..Len(sheet5_final) :
          ("Taxable Value mismatch" \in Range(sheet5_final[k].Mismatch_Reason))
             <=> (Abs(sheet5_final[k].GSTR2B_Taxable_Value
                      - sheet5_final[k].Tally_Taxable_Value) > Tolerance)

\* Tier 2 has met a candidate that differs by exactly 0.01 and dropped it,
\* and one that differs by the next representable amount and kept it.
C6_Witness ==
    /\ AfterSheet4
    /\ Len(sheet4_df) = 1
    /\ \E k \in 1..Len(merged_value) :
          Abs(merged_value[k].g.taxval - merged_value[k].t.taxval) = Tolerance
    /\ \E k \in 1..Len(merged_value) :
          Abs(merged_value[k].g.taxval - merged_value[k].t.taxval) = Tolerance + 1

AllRows == [k \in 1..(Len(gstr2b_df.rows) + Len(tally_df.rows)) |->
              IF k <= Len(gstr2b_df.rows) THEN gstr2b_df.rows[k]
              ELSE tally_df.rows[k - Len(gstr2b_df.rows)]]

\* C7 as stated: after normalization the five amounts of every record are
\* non-negative.
C7_AllNonNegative ==
    Normalized =>
        \A k \in 1..Len(AllRows) :
            /\ AllRows[k].invval >= 0 /\ AllRows[k].taxval >= 0
            /\ AllRows[k].igst >= 0 /\ AllRows[k].cgst >= 0 /\ AllRows[k].sgst >= 0

HasDigit(s) == \E i \in 1..Len(s) : s[i] \in Digits

\* What normalization may make of the raw row r: n.
AmountsNormalized(r, n) ==
    /\ n.invval >= 0 /\ n.taxval >= 0
    /\ ~HasDigit(r.invval) => n.invval = 0
    /\ ~HasDigit(r.taxval) => n.taxval = 0
    /\ \A f \in {"igst", "cgst", "sgst"} :
          /\ ~HasDigit(r[f]) => n[f] = 0
          /\ n[f] < 0 => Head(r[f]) = "-"
          /\ (r[f] # << >> /\ Head(r[f]) = "-" /\ n[f] # 0) => n[f] < 0

\* C7 amended: normalization makes invoiceValue and taxableValue non-negative,
\* 0 when the cell holds no number; igst, cgst and sgst become 0 when the
\* cell holds no number and otherwise keep the sign of the cell.
C7_Amended ==
    [][pc = "validated" =>
         \A k \in 1..Len(AllRows) : AmountsNormalized(AllRows[k], AllRows'[k])]_vars

\* A normalized record with a negative IGST and an Invoice Value that failed
\* to coerce.
C7_Witness ==
    /\ pc = "normalized"
    /\ \E k \in 1..Len(AllRows) :
          AllRows[k].igst < 0 /\ AllRows[k].invval = 0 /\ AllRows[k].taxval > 0

\* C8: Not Matching never holds two rows with the same (GSTR2B S.No,
\* Tally S.No).
C8_Dedup ==
    \A i, j \in 1..Len(sheet5_final) :
        i # j => \/ sheet5_final[i].GSTR2B_SNo # sheet5_final[j].GSTR2B_SNo
                 \/ sheet5_final[i].Tally_SNo # sheet5_final[j].Tally_SNo

\* Tier 3 has retained two candidate pairs with the same two S.No.
C8_Witness ==
    /\ AfterSheet5
    /\ sheet5_final # << >>
    /\ \E i, j \in 1..Len(merged_invoice_only) :
          /\ i < j
          /\ Sheet5Keep(merged_invoice_only[i]) /\ Sheet5Keep(merged_invoice_only[j])
          /\ merged_invoice_only[i].g.sno = merged_invoice_only[j].g.sno
          /\ merged_invoice_only[i].t.sno = merged_invoice_only[j].t.sno

\* The reason text for each truth value of (GSTIN differs, date differs,
\* taxable value differs by more than 0.01).
ReasonTable(g, d, t) ==
    CASE g /\ d /\ t -> <<"GSTIN mismatch", ", ", "Date mismatch", ", ", "Taxable Value mismatch">>
      [] g /\ d /\ ~t -> <<"GSTIN mismatch", ", ", "Date mismatch">>
      [] g /\ ~d /\ t -> <<"GSTIN mismatch", ", ", "Taxable Value mismatch">>
      [] g /\ ~d /\ ~t -> <<"GSTIN mismatch">>
      [] ~g /\ d /\ t -> <<"Date mismatch", ", ", "Taxable Value mismatch">>
      [] ~g /\ d /\ ~t -> <<"Date mismatch">>
      [] ~g /\ ~d /\ t -> <<"Taxable Value mismatch">>
      [] OTHER -> << >>

\* C9: the Mismatch Reason of every Not Matching row is not empty and is the
\* labels of the true predicates of that row, in the order GSTIN, Date,
\* Taxable Value, joined by ", ".
C9_MismatchReason ==
    \A k \in 1..Len(sheet5_final) :
        LET row == sheet5_final[k]
            g == row.GSTR2B_GSTIN # row.Tally_GSTIN
            d == \/ row.GSTR2B_Invoice_Date.nat \/ row.Tally_Invoice_Date.nat
                 \/ row.GSTR2B_Invoice_Date.s # row.Tally_Invoice_Date.s
            t == Abs(row.GSTR2B_Taxable_Value - row.Tally_Taxable_Value) > Tolerance
        IN  /\ row.Mismatch_Reason # << >>
            /\ row.Mismatch_Reason = ReasonTable(g, d, t)

\* Not Matching holds a row with all three labels and two valid dates.
C9_Witness ==
    \E k \in 1..Len(sheet5_final) :
        /\ Len(sheet5_final[k].Mismatch_Reason) = 5
        /\ ~sheet5_final[k].GSTR2B_Invoice_Date.nat
        /\ ~sheet5_final[k].Tally_Invoice_Date.nat

\* C10: the two records of every Matched Invoices pair have the same invoice
\* number, the same GSTIN, the same invoice date and the same taxable value.
C10_FieldwiseEqual ==
    \A k \in 1..Len(merged_full) :
        /\ merged_full[k].g.inv = merged_full[k].t.inv
        /\ merged_full[k].g.gstin = merged_full[k].t.gstin
        /\ merged_full[k].g.date = merged_full[k].t.date
        /\ merged_full[k].g.taxval = merged_full[k].t.taxval

\* C11: with unique S.No, no Not Matching row has the Mismatch Reason
\* "Taxable Value mismatch" alone: two unconsumed records that share invoice
\* number, GSTIN and date and differ in taxable value by more than 0.01 are
\* paired at Tier 2.
C11_NoSoleTaxableReason ==
    (SNoUnique(gstr2b_df) /\ SNoUnique(tally_df)) =>
        \A k \in 1..Len(sheet5_final) :
            sheet5_final[k].Mismatch_Reason # <<"Taxable Value mismatch">>

\* With unique S.No, Not Matching holds a row whose reason is the taxable
\* value label after exactly one other label.
C11_Witness ==
    /\ SNoUnique(gstr2b_df) /\ SNoUnique(tally_df)
    /\ \E k \in 1..Len(sheet5_final) :
          /\ Len(sheet5_final[k].Mismatch_Reason) = 3
          /\ sheet5_final[k].Mismatch_Reason[3] = "Taxable Value mismatch"

====
